---- MODULE Spec2Model ----
(***************************************************************************)
(* The dashboard script app.py as a state machine.  Streamlit runs the     *)
(* script top to bottom on every page render; one render is the chain      *)
(*   LoadModel -> LoadHistory -> ReadInputs -> RunAnalysis | SkipAnalysis  *)
(*             -> TrendSection -> HistoryTable -> Rerun                    *)
(* and an exception raised by a step ends the render (pc = "aborted").     *)
(* The log file, the model artifact and the wall clock outlive a render;   *)
(* every script variable is rebuilt by the next one.                      *)
(*                                                                         *)
(* A table cell is [t, n, s]: t its pandas type ("int", "float", "str",    *)
(* "datetime", "nan"), n its number, s its text.  A float is a fixed-point *)
(* number of FloatUnit units per 1.0.  A timestamp is the wall clock in    *)
(* whole seconds.  The log file holds text: a CSV token is [k, n, s] with  *)
(* k in "digits" (50), "decimal" (50.0), "text", "empty".                  *)
(***************************************************************************)
EXTENDS Integers, Sequences, FiniteSets, TLC

VARIABLES
    artifact,        \* predictive_model.pkl: "ok" or "missing"
    now,             \* the wall clock, in seconds
    classifier,      \* what the model artifact answers for each reading
    file,            \* system_log.csv: NoFile, or [header, rows] of CSV tokens
    pc,              \* the script's position in the current render
    error,           \* the exception that ended the render, or "none"
    model,           \* app.py:25   "unset" or "loaded"
    history,         \* app.py:29   the in-memory table, or NoTable
    reading,         \* app.py:46-52 the seven slider values, or NoReading
    predict_button,  \* app.py:78
    evaluated,       \* whether the body of `if predict_button:` ran
    root_causes,     \* app.py:116
    solutions,       \* app.py:145
    new_log,         \* app.py:168  the row appended, or NoRow
    trend,           \* what the trend section rendered
    table,           \* what the history table section rendered
    left             \* analyses the model still explores (at most MaxRuns)

vars == <<artifact, now, classifier, file, pc, error, model, history, reading,
          predict_button, evaluated, root_causes, solutions, new_log, trend,
          table, left>>

\* Bounds of the model.
MaxRuns == 2
MaxClock == 2

FloatUnit == 10^5

NoFile == [header |-> <<"(absent)">>, rows |-> <<>>, exists |-> FALSE]
NoTable == [columns |-> <<"(unset)">>, rows |-> <<>>, index |-> "(unset)"]
NoReading == [cpu |-> -1, memory |-> -1, error |-> -1, response |-> -1,
              threads |-> -1, network |-> -1, disk |-> -1]
NoRow == [unset |-> TRUE]
NoView == [status |-> "none", rows |-> <<>>, charts |-> <<>>]

Range(s) == {s[i] : i \in 1..Len(s)}

Last(s) == s[Len(s)]

----------------------------------------------------------------------------
\* Cells and CSV tokens.

IntCell(n) == [t |-> "int", n |-> n, s |-> ""]
FloatCell(n) == [t |-> "float", n |-> n, s |-> ""]
StrCell(n, s) == [t |-> "str", n |-> n, s |-> s]
NaN == [t |-> "nan", n |-> 0, s |-> ""]

\* datetime.now().strftime("%Y-%m-%d %H:%M:%S"): the clock as text.
Strftime(clock) == StrCell(clock, "%Y-%m-%d %H:%M:%S")

\* A float written with two decimals (float_format="%.2f").
FormatCellTwoDecimals(c) ==
    CASE c.t = "int" -> [k |-> "digits", n |-> c.n, s |-> ""]
      [] c.t = "float" ->
            [k |-> "decimal", n |-> ((c.n + 500) \div 1000) * 1000, s |-> ""]
      [] c.t = "nan" -> [k |-> "empty", n |-> 0, s |-> ""]
      [] OTHER -> [k |-> "text", n |-> c.n, s |-> c.s]

\* DataFrame.to_csv writes one cell: an int as digits, a float with its
\* decimal point, a string (and a datetime) as text, NaN as the empty field.
FormatCell(c) ==
    CASE c.t = "int" -> [k |-> "digits", n |-> c.n, s |-> ""]
      [] c.t = "float" -> [k |-> "decimal", n |-> c.n, s |-> ""]
      [] c.t = "nan" -> [k |-> "empty", n |-> 0, s |-> ""]
      [] OTHER -> [k |-> "text", n |-> c.n, s |-> c.s]

\* pandas.read_csv infers one type per column from its tokens.
ColumnType(tokens) ==
    IF tokens = {} THEN "object"
    ELSE IF \A x \in tokens : x.k = "digits" THEN "int"
    ELSE IF \A x \in tokens : x.k \in {"digits", "decimal", "empty"} THEN "float"
    ELSE "object"

\* pandas.read_csv parses one token as the column's type.  A decimal token
\* is taken to parse to the float that to_csv wrote (the shortest text that
\* names it); the digit-level precision of the parser is not modelled.
ParseToken(x, type) ==
    CASE x.k = "empty" -> NaN
      [] x.k = "text" -> StrCell(x.n, x.s)
      [] x.k = "digits" /\ type = "int" -> IntCell(x.n)
      [] x.k = "digits" /\ type = "float" -> FloatCell(x.n * FloatUnit)
      [] x.k = "decimal" /\ type = "float" -> FloatCell(x.n)
      [] OTHER -> StrCell(x.n, "number")

----------------------------------------------------------------------------
\* The history table.

\* app.py:32-38, the columns of the table built when there is no log file.
Columns ==
    <<"Timestamp", "CPU", "Memory", "Error", "Response", "Threads",
      "Network_Traffic", "Disk_IO", "Crash_Probability", "Failure_Next_5min">>

\* The empty table without the column that was added last.
EmptyHistoryNoThreads ==
    [columns |-> SelectSeq(Columns, LAMBDA c : c # "Threads"), rows |-> <<>>,
     index |-> "RangeIndex"]

\* app.py:32-38
EmptyHistory == [columns |-> Columns, rows |-> <<>>, index |-> "RangeIndex"]

\* app.py:30, pd.read_csv(log_file)
ReadCsv(f) ==
    LET cols == Range(f.header)
        type == [c \in cols |->
                    ColumnType({f.rows[i][c] : i \in 1..Len(f.rows)})]
    IN  [columns |-> f.header,
         rows |-> [i \in 1..Len(f.rows) |->
                      [c \in cols |-> ParseToken(f.rows[i][c], type[c])]],
         index |-> "RangeIndex"]

\* app.py:182, history.to_csv(log_file, index=False)
ToCsv(h) ==
    [header |-> h.columns,
     rows |-> [i \in 1..Len(h.rows) |->
                  [c \in Range(h.columns) |-> FormatCell(h.rows[i][c])]],
     exists |-> TRUE]

\* app.py:29-38
LoadHistoryFrom(f) == IF f.exists THEN ReadCsv(f) ELSE EmptyHistory

\* Column c of the rows; one that holds numbers and NaN becomes a float
\* column.
Upcast(rows, c) ==
    LET types == {rows[i][c].t : i \in 1..Len(rows)}
    IN  [i \in 1..Len(rows) |->
            IF /\ types \subseteq {"int", "float", "nan"}
               /\ types # {"int"}
               /\ rows[i][c].t = "int"
            THEN FloatCell(rows[i][c].n * FloatUnit) ELSE rows[i][c]]

\* app.py:181, pd.concat([history, new_log], ignore_index=True): the union of
\* the columns, history's first, a missing cell filled with NaN.
Concat(h, logColumns, logRow) ==
    LET columns == h.columns \o
                   SelectSeq(logColumns, LAMBDA c : c \notin Range(h.columns))
        cols == Range(columns)
        fill(r) == [c \in cols |-> IF c \in DOMAIN r THEN r[c] ELSE NaN]
        rows == [i \in 1..Len(h.rows) + 1 |->
                    IF i <= Len(h.rows) THEN fill(h.rows[i]) ELSE fill(logRow)]
        typed == [c \in cols |-> Upcast(rows, c)]
    IN  [columns |-> columns,
         rows |-> [i \in 1..Len(rows) |-> [c \in cols |-> typed[c][i]]],
         index |-> "RangeIndex"]

----------------------------------------------------------------------------
\* The evaluation of one reading.

\* The root causes with the CPU threshold met by a reading equal to it.
RootCausesInclusive(r) ==
    LET c1 == IF r.cpu >= 85 THEN <<"CPU Saturation Detected">> ELSE <<>>
        c2 == IF r.memory > 85 THEN Append(c1, "High Memory Utilization") ELSE c1
        c3 == IF r.error > 7 THEN Append(c2, "Error Spike Detected") ELSE c2
        c4 == IF r.response > 400 THEN Append(c3, "High Response Latency") ELSE c3
        c5 == IF r.threads > 800 THEN Append(c4, "High Thread Count") ELSE c4
        c6 == IF r.network > 800 THEN Append(c5, "High Network Traffic") ELSE c5
    IN  IF r.disk > 400 THEN Append(c6, "Heavy Disk I/O Activity") ELSE c6

\* app.py:116-131
RootCauses(r) ==
    LET c1 == IF r.cpu > 85 THEN <<"CPU Saturation Detected">> ELSE <<>>
        c2 == IF r.memory > 85 THEN Append(c1, "High Memory Utilization") ELSE c1
        c3 == IF r.error > 7 THEN Append(c2, "Error Spike Detected") ELSE c2
        c4 == IF r.response > 400 THEN Append(c3, "High Response Latency") ELSE c3
        c5 == IF r.threads > 800 THEN Append(c4, "High Thread Count") ELSE c4
        c6 == IF r.network > 800 THEN Append(c5, "High Network Traffic") ELSE c5
    IN  IF r.disk > 400 THEN Append(c6, "Heavy Disk I/O Activity") ELSE c6

\* The remediations with a rule for the error rate as well.
SolutionsWithError(r) ==
    LET s1 == IF r.cpu > 85 THEN <<"Scale CPU resources.">> ELSE <<>>
        s2 == IF r.memory > 85 THEN Append(s1, "Investigate memory leaks.") ELSE s1
        s3 == IF r.error > 7 THEN Append(s2, "Investigate the error spike.") ELSE s2
        s4 == IF r.threads > 800
              THEN Append(s3, "Check for thread leaks or runaway processes.")
              ELSE s3
        s5 == IF r.network > 800
              THEN Append(s4, "Analyze unusual network traffic patterns.")
              ELSE s4
    IN  IF r.disk > 400
        THEN Append(s5, "Optimize disk-intensive operations.") ELSE s5

\* app.py:145-156
Solutions(r) ==
    LET s1 == IF r.cpu > 85 THEN <<"Scale CPU resources.">> ELSE <<>>
        s2 == IF r.memory > 85 THEN Append(s1, "Investigate memory leaks.") ELSE s1
        s3 == IF r.threads > 800
              THEN Append(s2, "Check for thread leaks or runaway processes.")
              ELSE s2
        s4 == IF r.network > 800
              THEN Append(s3, "Analyze unusual network traffic patterns.")
              ELSE s3
    IN  IF r.disk > 400
        THEN Append(s4, "Optimize disk-intensive operations.") ELSE s4

\* app.py:94, model.predict_proba(input_data)[0][1] * 100
Probability(proba) == proba * 100

\* app.py:95
FailureNext5min(prediction) == IF prediction = 1 THEN "YES" ELSE "NO"

\* app.py:168-179, the columns of new_log in the order of its dict.
NewLogColumns ==
    <<"Timestamp", "CPU", "Memory", "Error", "Response", "Threads",
      "Network_Traffic", "Disk_IO", "Crash_Probability", "Failure_Next_5min">>

\* app.py:177, the value stored under Crash_Probability.
StoredProbability(probability) == probability

\* app.py:168-179
NewLog(timestamp, r, probability, failure_next_5min) ==
    [Timestamp |-> timestamp,
     CPU |-> IntCell(r.cpu),
     Memory |-> IntCell(r.memory),
     Error |-> IntCell(r.error),
     Response |-> IntCell(r.response),
     Threads |-> IntCell(r.threads),
     Network_Traffic |-> IntCell(r.network),
     Disk_IO |-> IntCell(r.disk),
     Crash_Probability |-> FloatCell(StoredProbability(probability)),
     Failure_Next_5min |-> StrCell(0, failure_next_5min)]

----------------------------------------------------------------------------
\* The trend section and the history table.

\* app.py:194
TrendHasData(h) == Len(h.rows) > 1

\* The table section without its test for an empty table.
TableAlways(h) == TRUE

\* app.py:244
TableHasData(h) == Len(h.rows) > 0

\* app.py:196, pd.to_datetime on one cell (NaN becomes NaT).
ToDatetime(c) ==
    IF c.t = "nan" THEN c ELSE [t |-> "datetime", n |-> c.n, s |-> c.s]

\* The sort key of a Timestamp cell: NaT sorts last.
SortKey(c) == IF c.t = "nan" THEN MaxClock + 1000 ELSE c.n

\* The rows left in the order of the table.
SortValuesSkipped(rows) == rows

RECURSIVE InsertByTimestamp(_, _)
\* `row` placed after every row of the sorted `rows` whose key is <= its own.
InsertByTimestamp(row, rows) ==
    IF rows = <<>> THEN <<row>>
    ELSE IF SortKey(Last(rows).Timestamp) <= SortKey(row.Timestamp)
         THEN Append(rows, row)
         ELSE Append(InsertByTimestamp(row, SubSeq(rows, 1, Len(rows) - 1)),
                     Last(rows))

RECURSIVE SortPrefix(_, _)
SortPrefix(rows, k) ==
    IF k = 0 THEN <<>> ELSE InsertByTimestamp(rows[k], SortPrefix(rows, k - 1))

\* app.py:197, history.sort_values("Timestamp"): ascending; rows with equal
\* timestamps keep their order (numpy sorts short arrays by insertion).
SortValues(rows) == SortPrefix(rows, Len(rows))

\* The table with its rows sorted before it is written.
PersistedSorted(h) == [h EXCEPT !.rows = SortValues(h.rows)]

\* app.py:181-182, the table that is written to the log file: the joined
\* table as it is, before the trend section sorts it.
Persisted(h) == h

\* app.py:196-198
Sorted(h) ==
    [columns |-> SelectSeq(h.columns, LAMBDA c : c # "Timestamp"),
     rows |-> SortValues([i \in 1..Len(h.rows) |->
                 [h.rows[i] EXCEPT !.Timestamp = ToDatetime(@)]]),
     index |-> "Timestamp"]

\* app.py:207-233, the columns charted, in the order of the script.
ChartColumns == <<"CPU", "Memory", "Network_Traffic", "Disk_IO", "Threads">>

\* The charts drawn before the first column that the table lacks.
RECURSIVE ChartsDrawn(_, _)
ChartsDrawn(columns, k) ==
    IF k > Len(ChartColumns) \/ ChartColumns[k] \notin columns THEN <<>>
    ELSE <<ChartColumns[k]>> \o ChartsDrawn(columns, k + 1)

\* app.py:245, the argument of history.tail.
TailRows == 10

\* app.py:245, history.tail(10)
TailOf(rows) ==
    IF Len(rows) <= TailRows THEN rows
    ELSE SubSeq(rows, Len(rows) - TailRows + 1, Len(rows))

----------------------------------------------------------------------------
\* The environment: readings, classifier answers, log files found at start.

Reading(cpu, memory, err, response, threads, network, disk) ==
    [cpu |-> cpu, memory |-> memory, error |-> err, response |-> response,
     threads |-> threads, network |-> network, disk |-> disk]

\* app.py:46-52, the slider ranges.
InSliderRange(r) ==
    /\ r.cpu \in 0..100
    /\ r.memory \in 0..100
    /\ r.error \in 0..10
    /\ r.response \in 0..500
    /\ r.threads \in 0..1000
    /\ r.network \in 0..1000
    /\ r.disk \in 0..500

\* Every field at its threshold or one above it, and the spec's scenarios.
AllReadings ==
    {r \in [cpu : {85, 86}, memory : {85, 86}, error : {7, 8},
            response : {400, 401}, threads : {800, 801},
            network : {800, 801}, disk : {400, 401}] : InSliderRange(r)}
    \cup {Reading(90, 50, 1, 100, 200, 50, 20),
          Reading(50, 50, 1, 100, 200, 50, 20),
          Reading(90, 90, 1, 100, 900, 50, 20)}

\* The readings used where the history is what matters.
HistoryReadings ==
    {Reading(50, 50, 1, 200, 200, 100, 50),
     Reading(86, 85, 8, 400, 801, 800, 401)}

\* (label, predict_proba) answers; predict_proba in units of 1/FloatUnit.
ModelOutputs == {<<0, 4321>>, <<1, 98765>>}

\* The classifier is a function of the reading, fixed by the artifact: its
\* answer for the quiet reading, and its answer for every other one.
QuietReading == Reading(50, 50, 1, 200, 200, 100, 50)

Classifiers == [quiet : ModelOutputs, other : ModelOutputs]

ConstantClassifiers == {c \in Classifiers : c.quiet = c.other}

\* app.py:93-94, model.predict and model.predict_proba on the reading.
Predict(c, r) == IF r = QuietReading THEN c.quiet ELSE c.other

\* A row as this program writes it.
LoggedRow(clock, r, out) ==
    NewLog(Strftime(clock), r, Probability(out[2]), FailureNext5min(out[1]))

QuietRow(clock) == LoggedRow(clock, QuietReading, <<0, 4321>>)

\* A log file this program wrote earlier: rows in insertion order.
WrittenFile(rows) ==
    ToCsv([columns |-> Columns, rows |-> rows, index |-> "RangeIndex"])

\* Log files with the schema: none, header only, two rows written while the
\* clock was set back, eleven rows (more than the table shows).
ValidFiles ==
    {NoFile,
     WrittenFile(<<>>),
     WrittenFile(<<QuietRow(2), QuietRow(1)>>),
     WrittenFile([i \in 1..11 |-> QuietRow(IF i = 4 THEN 0 ELSE 1)])}

\* `f` without column `c`.
WithoutColumn(f, c) ==
    [header |-> SelectSeq(f.header, LAMBDA x : x # c),
     rows |-> [i \in 1..Len(f.rows) |->
                  [x \in Range(f.header) \ {c} |-> f.rows[i][x]]],
     exists |-> TRUE]

\* Log files that lack a column of the schema.
ForeignFiles ==
    {WithoutColumn(WrittenFile(<<QuietRow(2), QuietRow(1)>>), c) :
        c \in {"Error", "CPU", "Timestamp"}}
    \cup {WithoutColumn(WrittenFile(<<>>), "Error")}

----------------------------------------------------------------------------
\* The state after construction: a first render is about to start.

ScriptStart ==
    /\ pc = "model"
    /\ error = "none"
    /\ model = "unset"
    /\ history = NoTable
    /\ reading = NoReading
    /\ predict_button = FALSE
    /\ evaluated = FALSE
    /\ root_causes = <<>>
    /\ solutions = <<>>
    /\ new_log = NoRow
    /\ trend = NoView
    /\ table = NoView

Init ==
    /\ artifact \in {"ok", "missing"}
    /\ now \in 0..MaxClock
    /\ classifier \in ConstantClassifiers
    /\ file \in ValidFiles
    /\ left = MaxRuns
    /\ ScriptStart

InitForeign ==
    /\ artifact = "ok"
    /\ now \in 0..MaxClock
    /\ classifier \in Classifiers
    /\ file \in ForeignFiles
    /\ left = MaxRuns
    /\ ScriptStart

InitRules ==
    /\ artifact = "ok"
    /\ now = 0
    /\ classifier \in ConstantClassifiers
    /\ file = NoFile
    /\ left = 1
    /\ ScriptStart

----------------------------------------------------------------------------
\* The steps of one render.

\* A load that falls back to a default model.
LoadModelFallback(a) == "loaded"

\* app.py:25, what joblib.load does with the artifact.
LoadModelOutcome(a) == IF a = "ok" THEN "loaded" ELSE "raise"

\* app.py:25
LoadModel ==
    /\ pc = "model"
    /\ IF LoadModelOutcome(artifact) = "loaded"
       THEN /\ model' = "loaded"
            /\ pc' = "history"
            /\ error' = error
       ELSE /\ model' = model
            /\ pc' = "aborted"
            /\ error' = "model"
    /\ UNCHANGED <<artifact, now, classifier, file, history, reading,
                   predict_button, evaluated, root_causes, solutions, new_log,
                   trend, table, left>>

\* app.py:27-38
LoadHistory ==
    /\ pc = "history"
    /\ history' = LoadHistoryFrom(file)
    /\ pc' = "input"
    /\ UNCHANGED <<artifact, now, classifier, file, error, model, reading,
                   predict_button, evaluated, root_causes, solutions, new_log,
                   trend, table, left>>

\* app.py:46-52 and 78: the slider values and whether the button was clicked.
ReadInputs(readings) ==
    /\ pc = "input"
    /\ \E r \in readings, clicked \in BOOLEAN :
          /\ clicked => left > 0
          /\ reading' = r
          /\ predict_button' = clicked
    /\ pc' = "analysis"
    /\ UNCHANGED <<artifact, now, classifier, file, error, model, history,
                   evaluated, root_causes, solutions, new_log, trend, table,
                   left>>

\* app.py:80-182, the body of `if predict_button:`.
RunAnalysis ==
    /\ pc = "analysis"
    /\ predict_button
    /\ LET out == Predict(classifier, reading)
           prediction == out[1]
           probability == Probability(out[2])
           failure_next_5min == FailureNext5min(prediction)
           timestamp == Strftime(now)
           log == NewLog(timestamp, reading, probability, failure_next_5min)
           joined == Concat(history, NewLogColumns, log)
       IN  /\ root_causes' = RootCauses(reading)
           /\ solutions' = Solutions(reading)
           /\ new_log' = log
           /\ history' = joined
           /\ file' = ToCsv(Persisted(joined))
    /\ evaluated' = TRUE
    /\ left' = left - 1
    /\ pc' = "trend"
    /\ UNCHANGED <<artifact, now, classifier, error, model, reading,
                   predict_button, trend, table>>

\* app.py:80, the button was not clicked.
SkipAnalysis ==
    /\ pc = "analysis"
    /\ ~predict_button
    /\ pc' = "trend"
    /\ UNCHANGED <<artifact, now, classifier, file, error, model, history,
                   reading, predict_button, evaluated, root_causes, solutions,
                   new_log, trend, table, left>>

\* app.py:192-236.  history["Timestamp"] and each history[<column>] raise
\* KeyError when the table lacks the column.
TrendSection ==
    /\ pc = "trend"
    /\ IF ~TrendHasData(history)
       THEN /\ trend' = [status |-> "info", rows |-> <<>>, charts |-> <<>>]
            /\ history' = history
            /\ pc' = "table"
            /\ error' = error
       ELSE IF "Timestamp" \notin Range(history.columns)
       THEN /\ trend' = [status |-> "error", rows |-> <<>>, charts |-> <<>>]
            /\ history' = history
            /\ pc' = "aborted"
            /\ error' = "KeyError"
       ELSE LET sorted == Sorted(history)
                charts == ChartsDrawn(Range(sorted.columns), 1)
                all == Len(charts) = Len(ChartColumns)
            IN  /\ history' = sorted
                /\ trend' = [status |-> IF all THEN "charts" ELSE "error",
                             rows |-> sorted.rows, charts |-> charts]
                /\ pc' = IF all THEN "table" ELSE "aborted"
                /\ error' = IF all THEN error ELSE "KeyError"
    /\ UNCHANGED <<artifact, now, classifier, file, model, reading,
                   predict_button, evaluated, root_causes, solutions, new_log,
                   table, left>>

\* app.py:242-247
HistoryTable ==
    /\ pc = "table"
    /\ table' = IF TableHasData(history)
                THEN [status |-> "rows", rows |-> TailOf(history.rows),
                      charts |-> <<>>]
                ELSE [status |-> "info", rows |-> <<>>, charts |-> <<>>]
    /\ pc' = "done"
    /\ UNCHANGED <<artifact, now, classifier, file, error, model, history,
                   reading, predict_button, evaluated, root_causes, solutions,
                   new_log, trend, left>>

\* The next page render: the script starts again with fresh variables.
Rerun ==
    /\ pc \in {"done", "aborted"}
    /\ pc' = "model"
    /\ error' = "none"
    /\ model' = "unset"
    /\ history' = NoTable
    /\ reading' = NoReading
    /\ predict_button' = FALSE
    /\ evaluated' = FALSE
    /\ root_causes' = <<>>
    /\ solutions' = <<>>
    /\ new_log' = NoRow
    /\ trend' = NoView
    /\ table' = NoView
    /\ UNCHANGED <<artifact, now, classifier, file, left>>

\* The wall clock between two renders: it moves on, or is set back.
ClockChange ==
    /\ pc = "model"
    /\ \E t \in 0..MaxClock : t # now /\ now' = t
    /\ UNCHANGED <<artifact, classifier, file, pc, error, model, history,
                   reading, predict_button, evaluated, root_causes, solutions,
                   new_log, trend, table, left>>

\* The model artifact is removed or put back between two renders.
ArtifactChange ==
    /\ pc = "model"
    /\ artifact' = IF artifact = "ok" THEN "missing" ELSE "ok"
    /\ UNCHANGED <<now, classifier, file, pc, error, model, history, reading,
                   predict_button, evaluated, root_causes, solutions, new_log,
                   trend, table, left>>

Render(readings) ==
    \/ LoadModel
    \/ LoadHistory
    \/ ReadInputs(readings)
    \/ RunAnalysis
    \/ SkipAnalysis
    \/ TrendSection
    \/ HistoryTable
    \/ Rerun

Next == Render(HistoryReadings) \/ ClockChange \/ ArtifactChange

NextRules == Render(AllReadings)

Spec == Init /\ [][Next]_vars

SpecForeign == InitForeign /\ [][Next]_vars

SpecRules == InitRules /\ [][NextRules]_vars

----------------------------------------------------------------------------
\* The claims.

\* Spec 4.1: the root-cause rules, in their fixed order.
CauseRules ==
    <<[name |-> "CPU Saturation Detected", field |-> "cpu", limit |-> 85],
      [name |-> "High Memory Utilization", field |-> "memory", limit |-> 85],
      [name |-> "Error Spike Detected", field |-> "error", limit |-> 7],
      [name |-> "High Response Latency", field |-> "response", limit |-> 400],
      [name |-> "High Thread Count", field |-> "threads", limit |-> 800],
      [name |-> "High Network Traffic", field |-> "network", limit |-> 800],
      [name |-> "Heavy Disk I/O Activity", field |-> "disk", limit |-> 400]>>

\* Spec 4.1: the remediation rules, in their fixed order.
RemedyRules ==
    <<[name |-> "Scale CPU resources.", field |-> "cpu", limit |-> 85],
      [name |-> "Investigate memory leaks.", field |-> "memory", limit |-> 85],
      [name |-> "Check for thread leaks or runaway processes.",
       field |-> "threads", limit |-> 800],
      [name |-> "Analyze unusual network traffic patterns.",
       field |-> "network", limit |-> 800],
      [name |-> "Optimize disk-intensive operations.",
       field |-> "disk", limit |-> 400]>>

\* The rules of `rules` that hold of reading r.
Firing(rules, r) == {k \in 1..Len(rules) : r[rules[k].field] > rules[k].limit}

\* `list` names exactly the rules of `rules` that hold of r, each once, in the
\* order of `rules`.
IsOrderedSelection(list, rules, r) ==
    /\ Len(list) = Cardinality(Firing(rules, r))
    /\ \A k \in 1..Len(rules) :
          (k \in Firing(rules, r)) <=> (rules[k].name \in Range(list))
    /\ \A i \in 1..Len(list), j \in 1..Len(list) :
          i < j => \E a \in 1..Len(rules), b \in 1..Len(rules) :
                      a < b /\ rules[a].name = list[i] /\ rules[b].name = list[j]

\* C1: after a run-analysis action the root-cause list holds a cause if and
\* only if its strict threshold predicate holds of the reading, the causes in
\* the fixed order; a reading with no field above its threshold gives the
\* empty list.
C1_RootCausesFollowThresholds ==
    evaluated =>
        /\ IsOrderedSelection(root_causes, CauseRules, reading)
        /\ (/\ reading.cpu <= 85 /\ reading.memory <= 85 /\ reading.error <= 7
            /\ reading.response <= 400 /\ reading.threads <= 800
            /\ reading.network <= 800 /\ reading.disk <= 400)
           => root_causes = <<>>

\* C1 witness: an analysis of a reading with three fields above and four
\* fields exactly at their thresholds.
C1_Witness ==
    /\ evaluated
    /\ reading = Reading(85, 86, 7, 401, 800, 800, 401)
    /\ root_causes = <<"High Memory Utilization", "High Response Latency",
                       "Heavy Disk I/O Activity">>

\* C2: after a run-analysis action the remediation list is the ordered
\* selection of the five remediation rules that hold of the reading; error and
\* response add none, so a reading that breaches only those two has root
\* causes and no remediation.
C2_SolutionsFollowThresholds ==
    evaluated =>
        /\ IsOrderedSelection(solutions, RemedyRules, reading)
        /\ (/\ reading.cpu <= 85 /\ reading.memory <= 85
            /\ reading.threads <= 800 /\ reading.network <= 800
            /\ reading.disk <= 400
            /\ (reading.error > 7 \/ reading.response > 400))
           => (root_causes # <<>> /\ solutions = <<>>)

\* C2 witness: an analysis of a reading that breaches only error and response.
C2_Witness ==
    /\ evaluated
    /\ reading = Reading(85, 85, 8, 401, 800, 800, 400)
    /\ root_causes = <<"Error Spike Detected", "High Response Latency">>
    /\ solutions = <<>>

\* The records of the log file, in file order.
FileRows(f) == IF f.exists THEN f.rows ELSE <<>>

\* The CSV line of a table row.
FormatRow(r) == [c \in DOMAIN r |-> FormatCell(r[c])]

C5_NineColumns ==
    (pc = "input" /\ ~file.exists) =>
        /\ error = "none"
        /\ history.rows = <<>>
        /\ Len(history.columns) = 9

\* C5 as amended: loading with no log file does not fail and gives an empty
\* table with the ten columns of the schema, the columns every appended
\* record is written with.
C5_TenColumns ==
    (pc = "input" /\ ~file.exists) =>
        /\ error = "none"
        /\ history.rows = <<>>
        /\ Len(history.columns) = 10
        /\ history.columns = NewLogColumns

\* C5 witness: the history has been loaded and there is no log file.
C5_Witness ==
    /\ pc = "input"
    /\ ~file.exists
    /\ history.rows = <<>>
    /\ history.index = "RangeIndex"

\* The columns of the schema that the log file lacks.
MissingColumns(f) == Range(Columns) \ Range(f.header)

\* C6: loading a log file that lacks a column of the schema aborts the render
\* and leaves the file as it is.
C6_MissingColumnsAreFatal ==
    [][(pc = "history" /\ file.exists /\ MissingColumns(file) # {})
       => (pc' = "aborted" /\ file' = file)]_vars

\* C7: the rows the trend charts consume are the rows of the history in
\* non-decreasing timestamp order.
C7_TrendIsInTimeOrder ==
    trend.status = "charts" =>
        /\ Len(trend.rows) = Len(file.rows)
        /\ \A i \in 1..Len(file.rows) :
              \E j \in 1..Len(trend.rows) :
                 FormatRow(trend.rows[j]) = file.rows[i]
        /\ \A i \in 1..Len(trend.rows), j \in 1..Len(trend.rows) :
              i < j => trend.rows[i].Timestamp.n <= trend.rows[j].Timestamp.n

\* C7 witness: charts drawn from a history whose records are not in timestamp
\* order in the file.
C7_Witness ==
    /\ trend.status = "charts"
    /\ \E i \in 1..Len(file.rows), j \in 1..Len(file.rows) :
          i < j /\ file.rows[i].Timestamp.n > file.rows[j].Timestamp.n

\* The last n of the rows.
LastN(rows, n) ==
    SubSeq(rows, IF Len(rows) > n THEN Len(rows) - n + 1 ELSE 1, Len(rows))

\* C8: the history table shows the last ten records (all of them when there
\* are fewer) in insertion order, the order of the log file.
C8_TailInInsertionOrder ==
    table.status = "rows" =>
        /\ Len(table.rows) = Len(LastN(file.rows, 10))
        /\ \A i \in 1..Len(table.rows) :
              FormatRow(table.rows[i]) = LastN(file.rows, 10)[i]

\* C9: a failed model load ends the render at once: no input is collected, no
\* history is loaded, nothing is evaluated or rendered, and the log file is
\* not changed.
C9_ModelLoadFailsFast ==
    /\ [](error = "model" =>
            /\ pc = "aborted"
            /\ model = "unset"
            /\ history = NoTable
            /\ reading = NoReading
            /\ ~predict_button
            /\ ~evaluated
            /\ root_causes = <<>> /\ solutions = <<>> /\ new_log = NoRow
            /\ trend = NoView /\ table = NoView)
    /\ [][(pc = "model" /\ artifact = "missing" /\ pc' # pc)
          => (error' = "model" /\ file' = file)]_vars
    /\ [][(pc = "aborted" /\ pc' # pc) => (pc' = "model" /\ file' = file)]_vars

\* C9 witness: the load fails in a render that follows an analysis: a log
\* file exists and the artifact has gone missing.
C9_Witness ==
    /\ error = "model"
    /\ pc = "aborted"
    /\ file.exists
    /\ left < MaxRuns

\* C10: with no record in the history no section raises an error: the trend
\* section and the history table each report that there is no data.
C10_EmptyHistoryIsReported ==
    (history # NoTable /\ history.rows = <<>>) =>
        /\ error = "none"
        /\ pc # "aborted"
        /\ pc \in {"table", "done"} => trend.status = "info"
        /\ pc = "done" => table.status = "info"

\* C10 witness: a render completed over a log file that holds the header and
\* no record.
C10_Witness ==
    /\ pc = "done"
    /\ file.exists
    /\ history.rows = <<>>
    /\ trend.status = "info"
    /\ table.status = "info"

====
